---- MODULE Spec2Model ----
(***************************************************************************)
(* Model of the PII transformer pipeline of src/src/app/page.tsx:          *)
(* the hex codec, the digest, the OpenPGP adapters, the two orchestrator   *)
(* entry points (transformPiiData, backwardTransformPiiData) and the       *)
(* format heuristic (containsPii, analyzePiiData).                         *)
(*                                                                         *)
(* A JavaScript string is a sequence of one-character strings.  The fixed  *)
(* texts of error messages and markers are kept as single tokens of such a *)
(* sequence: the code only concatenates and upper-cases them.              *)
(***************************************************************************)
EXTENDS Integers, Sequences, FiniteSets, TLC

\* ------------------------------------------------------------------ bounds

\* Longest input text drawn over TextAlphabet.
MaxTextLen == 4
\* Number of transform calls that may be in flight together.
NumCalls == 2
\* Longest byte sequence given to the hex codec.
MaxBytes == 2

\* ------------------------------------------------------------------ strings

\* `undefined`, the value of an omitted passphrase argument.
Undefined == "<undefined>"

\* JavaScript truthiness of an optional string: undefined and "" are falsy.
Falsy(p) == p = Undefined \/ p = ""

WhiteSpace == {" "}

StartsWith(s, prefix) ==
    /\ Len(s) >= Len(prefix)
    /\ \A i \in 1..Len(prefix) : s[i] = prefix[i]

\* s.slice(n)
Slice(s, n) == IF n >= Len(s) THEN << >> ELSE SubSeq(s, n + 1, Len(s))

\* s.substr(i, n), i counted from 0
Substr(s, i, n) ==
    IF i >= Len(s) THEN << >>
    ELSE SubSeq(s, i + 1, IF i + n > Len(s) THEN Len(s) ELSE i + n)

RECURSIVE TrimStart(_)
TrimStart(s) ==
    IF s # << >> /\ Head(s) \in WhiteSpace THEN TrimStart(Tail(s)) ELSE s

RECURSIVE TrimEnd(_)
TrimEnd(s) ==
    IF s # << >> /\ s[Len(s)] \in WhiteSpace
    THEN TrimEnd(SubSeq(s, 1, Len(s) - 1)) ELSE s

\* s.trim()
Trim(s) == TrimEnd(TrimStart(s))

\* !text.trim()
IsBlank(s) == Trim(s) = << >>

RECURSIVE Flatten(_)
\* Array.prototype.join('') of an array of strings
Flatten(parts) ==
    IF parts = << >> THEN << >> ELSE Head(parts) \o Flatten(Tail(parts))

\* Fixed message texts of the code and of the OpenPGP library.
MsgNeedPassDecrypt == <<"Passphrase is required for decryption">>
MsgNeedPassEncrypt == <<"Passphrase is required for encryption">>
MsgOnlyHex == <<"Only hex format starting with \\xc is supported">>
MsgDecryptPrefix == <<"PGP decryption failed: ">>
MsgEncryptPrefix == <<"PGP encryption failed: ">>
MsgUnknown == <<"Unknown error">>
MsgLibParse == <<"Error during parsing. This message / key probably does not conform to a valid OpenPGP format.">>
MsgLibNoData == <<"Error decrypting message: No encrypted data found">>
MsgLibWrongKey == <<"Error decrypting message: Session key decryption failed.">>
MsgLibEncrypt == <<"Error encrypting message">>

\* String.prototype.toUpperCase, character by character.
UpperChar(ch) ==
    CASE ch = "a" -> "A"
      [] ch = "b" -> "B"
      [] ch = "c" -> "C"
      [] ch = "d" -> "D"
      [] ch = "e" -> "E"
      [] ch = "f" -> "F"
      [] ch = "x" -> "X"
      [] ch = "Passphrase is required for decryption" -> "PASSPHRASE IS REQUIRED FOR DECRYPTION"
      [] ch = "Passphrase is required for encryption" -> "PASSPHRASE IS REQUIRED FOR ENCRYPTION"
      [] ch = "Only hex format starting with \\xc is supported" -> "ONLY HEX FORMAT STARTING WITH \\XC IS SUPPORTED"
      [] ch = "PGP decryption failed: " -> "PGP DECRYPTION FAILED: "
      [] ch = "PGP encryption failed: " -> "PGP ENCRYPTION FAILED: "
      [] ch = "Unknown error" -> "UNKNOWN ERROR"
      [] ch = "Error during parsing. This message / key probably does not conform to a valid OpenPGP format." -> "ERROR DURING PARSING. THIS MESSAGE / KEY PROBABLY DOES NOT CONFORM TO A VALID OPENPGP FORMAT."
      [] ch = "Error decrypting message: No encrypted data found" -> "ERROR DECRYPTING MESSAGE: NO ENCRYPTED DATA FOUND"
      [] ch = "Error decrypting message: Session key decryption failed." -> "ERROR DECRYPTING MESSAGE: SESSION KEY DECRYPTION FAILED."
      [] ch = "Error encrypting message" -> "ERROR ENCRYPTING MESSAGE"
      [] OTHER -> ch

ToUpperCase(s) == [i \in 1..Len(s) |-> UpperChar(s[i])]

\* ------------------------------------------------------------------ hex codec

HexDigits == <<"0", "1", "2", "3", "4", "5", "6", "7",
               "8", "9", "a", "b", "c", "d", "e", "f">>

\* Value of one hex digit in either case, -1 for any other character.
HexVal(ch) ==
    CASE ch = "0" -> 0 [] ch = "1" -> 1 [] ch = "2" -> 2 [] ch = "3" -> 3
      [] ch = "4" -> 4 [] ch = "5" -> 5 [] ch = "6" -> 6 [] ch = "7" -> 7
      [] ch = "8" -> 8 [] ch = "9" -> 9
      [] ch \in {"a", "A"} -> 10 [] ch \in {"b", "B"} -> 11
      [] ch \in {"c", "C"} -> 12 [] ch \in {"d", "D"} -> 13
      [] ch \in {"e", "E"} -> 14 [] ch \in {"f", "F"} -> 15
      [] OTHER -> -1

\* Number.prototype.toString(16) of a byte
ToString16(b) ==
    IF b < 16 THEN <<HexDigits[b + 1]>>
    ELSE <<HexDigits[(b \div 16) + 1], HexDigits[(b % 16) + 1]>>

\* s.padStart(2, '0')
PadStart2(s) ==
    IF Len(s) >= 2 THEN s
    ELSE [i \in 1..(2 - Len(s)) |-> "0"] \o s

NaN == -1

RECURSIVE ParseDigits(_, _)
\* The value of the longest prefix of hex digits of s, acc being the value so
\* far; what follows the first non-digit is ignored.
ParseDigits(s, acc) ==
    IF s = << >> \/ HexVal(Head(s)) < 0 THEN acc
    ELSE ParseDigits(Tail(s), 16 * acc + HexVal(Head(s)))

\* parseInt(s, 16): leading white space and one "0x" are skipped, then the
\* longest prefix of hex digits is read; NaN when there is none.  (No sign
\* character occurs in the texts of this model.)
ParseInt16(s) ==
    LET t == TrimStart(s)
        u == IF StartsWith(t, <<"0", "x">>) \/ StartsWith(t, <<"0", "X">>)
             THEN Slice(t, 2) ELSE t
    IN  IF u = << >> \/ HexVal(Head(u)) < 0 THEN NaN ELSE ParseDigits(u, 0)

\* Storing a number into a Uint8Array element: NaN becomes 0, else modulo 256.
ToUint8(n) == IF n = NaN THEN 0 ELSE n % 256

\* A faulty variant of uint8ArrayToHex that leaves out padStart(2, '0').
uint8ArrayToHexNoPad(bytes) ==
    <<"\\", "x">> \o Flatten([i \in 1..Len(bytes) |-> ToString16(bytes[i])])

uint8ArrayToHex(bytes) ==
    <<"\\", "x">>
        \o Flatten([i \in 1..Len(bytes) |-> PadStart2(ToString16(bytes[i]))])

\* new Uint8Array(hex.length / 2) has floor(hex.length / 2) elements and the
\* loop's write past the end, for an odd length, is dropped.
hexToUint8Array(hex) ==
    LET h == IF StartsWith(hex, <<"\\", "x">>) THEN Slice(hex, 2) ELSE hex
    IN  [j \in 1..(Len(h) \div 2) |-> ToUint8(ParseInt16(Substr(h, 2 * (j - 1), 2)))]

\* ------------------------------------------------------------------ digest

\* TextEncoder.encode for the characters a plain text of this model is made
\* of (UTF-8, one byte each).
CharCode(ch) ==
    CASE ch = " " -> 32
      [] ch = "\\" -> 92
      [] ch = "a" -> 97
      [] ch = "c" -> 99
      [] ch = "x" -> 120
      [] OTHER -> 63

Utf8Chars == {" ", "\\", "a", "c", "x"}

Utf8Encode(s) == [i \in 1..Len(s) |-> CharCode(s[i])]

Utf8Decode(bytes) ==
    [i \in 1..Len(bytes) |-> CHOOSE ch \in Utf8Chars : CharCode(ch) = bytes[i]]

\* crypto.subtle.digest('SHA-256', data) rendered as hex: a collision-free
\* function of the digested text, kept symbolic.
Sha256Hex(s) == <<"sha256(">> \o s \o <<")">>

generateSHA256Hash(text) == Sha256Hex(ToUpperCase(text))

\* ------------------------------------------------------------------ OpenPGP

\* Outcome of a call that either returns a value or throws an Error.
Ok(v) == [ok |-> TRUE, value |-> v]
Throw(m) == [ok |-> FALSE, isError |-> TRUE, message |-> m]

\* error instanceof Error ? error.message : 'Unknown error'
ErrorText(e) == IF e.isError THEN e.message ELSE MsgUnknown

\* Abstract wire form of a passphrase-protected message: a symmetric-key
\* session packet (tag byte 0xc3, salt, a check value of the passphrase)
\* followed by the encrypted data packet (tag byte 0xd2) holding the length
\* of the text, which stands for the packet's integrity check, and the text.
TagSkesk == 195
TagSeipd == 210

KeyCheck(passphrase) ==
    CASE passphrase = "k1" -> 1
      [] passphrase = "k2" -> 2
      [] OTHER -> 3

PgpSerialize(plainText, passphrase, salt) ==
    <<TagSkesk, salt, KeyCheck(passphrase), TagSeipd, Len(plainText)>>
        \o Utf8Encode(plainText)

\* Every packet starts with a byte whose top bit is set.
PgpParses(bytes) == bytes = << >> \/ bytes[1] >= 128

PgpIsEncrypted(bytes) ==
    /\ Len(bytes) >= 5
    /\ bytes[1] = TagSkesk
    /\ bytes[4] = TagSeipd
    /\ bytes[5] = Len(bytes) - 5
    /\ \A i \in 6..Len(bytes) : \E ch \in Utf8Chars : CharCode(ch) = bytes[i]

\* openpgp.readMessage({ binaryMessage })
OpenpgpReadMessage(bytes) ==
    IF PgpParses(bytes) THEN Ok(bytes) ELSE Throw(MsgLibParse)

\* openpgp.decrypt({ message, passwords: [passphrase], format: "utf8" }).data
OpenpgpDecrypt(message, passphrase) ==
    IF ~PgpIsEncrypted(message) THEN Throw(MsgLibNoData)
    ELSE IF message[3] # KeyCheck(passphrase) THEN Throw(MsgLibWrongKey)
    ELSE Ok(Utf8Decode(SubSeq(message, 6, Len(message))))

\* openpgp.encrypt({ message, passwords }) is called without `format`, so it
\* resolves to the ASCII-armored message, a string.
OpenpgpEncrypt(plainText, passphrase, salt) ==
    [kind |-> "armored", bytes |-> PgpSerialize(plainText, passphrase, salt)]

\* new Uint8Array(v): a copy of a buffer or typed array; for a string, an
\* array of ToIndex(ToNumber(v)) zero bytes, and the armor text
\* "-----BEGIN PGP MESSAGE-----..." converts to NaN, hence to length 0.
NewUint8Array(v) == IF v.kind = "binary" THEN v.bytes ELSE << >>

\* ------------------------------------------------------------------ adapters

\* What the environment decides for one call of openpgp.encrypt: whether it
\* rejects, and the random salt of the message it builds.
Salts == {1, 2}
EncryptEnvs == [fails : BOOLEAN, salt : Salts]
ConcEncryptEnvs == [fails : BOOLEAN, salt : {1}]

\* encryptedData.startsWith('\\xc')
FormatGate(encryptedData) == StartsWith(encryptedData, <<"\\", "x", "c">>)

\* A faulty variant of WrapDecryptError that returns the message instead of throwing.
WrapDecryptErrorReturned(e) == Ok(MsgDecryptPrefix \o ErrorText(e))

\* The catch of safe_pgp_sym_decrypt: rethrow with the message prefixed.
WrapDecryptError(e) == Throw(MsgDecryptPrefix \o ErrorText(e))

\* The catch of safe_pgp_sym_encrypt.
WrapEncryptError(e) == Throw(MsgEncryptPrefix \o ErrorText(e))

\* The checks safe_pgp_sym_decrypt makes before it calls decryptPGP.
SafeDecryptGuard(encryptedData, passphrase) ==
    IF ~FormatGate(encryptedData) THEN Throw(MsgOnlyHex)
    ELSE IF Falsy(passphrase) THEN Throw(MsgNeedPassDecrypt)
    ELSE Ok(<< >>)

\* The check safe_pgp_sym_encrypt makes before it calls the library.
SafeEncryptGuard(passphrase) ==
    IF Falsy(passphrase) THEN Throw(MsgNeedPassEncrypt) ELSE Ok(<< >>)

decryptPGP(hexData, passphrase) ==
    LET message == OpenpgpReadMessage(hexToUint8Array(hexData))
    IN  IF ~message.ok THEN message
        ELSE OpenpgpDecrypt(message.value, passphrase)

safe_pgp_sym_decrypt(encryptedData, passphrase) ==
    LET guard == SafeDecryptGuard(encryptedData, passphrase)
        r == IF guard.ok THEN decryptPGP(encryptedData, passphrase) ELSE guard
    IN  IF r.ok THEN r ELSE WrapDecryptError(r)

\* The library call of safe_pgp_sym_encrypt and the conversion of what it
\* resolves to.
EncryptAndEncode(plainText, passphrase, env) ==
    IF env.fails THEN Throw(MsgLibEncrypt)
    ELSE Ok(uint8ArrayToHex(NewUint8Array(OpenpgpEncrypt(plainText, passphrase, env.salt))))

safe_pgp_sym_encrypt(plainText, passphrase, env) ==
    LET guard == SafeEncryptGuard(passphrase)
        r == IF guard.ok THEN EncryptAndEncode(plainText, passphrase, env) ELSE guard
    IN  IF r.ok THEN r ELSE WrapEncryptError(r)

\* ------------------------------------------------------------------ orchestrator

\* A faulty variant of IsIdentityInput that tests the text itself, not text.trim().
IsIdentityInputNoTrim(text) == text = << >>

\* if (!text.trim())
IsIdentityInput(text) == IsBlank(text)

IdentityResult(text) ==
    [originalText |-> text, transformedText |-> text,
     detectedPiiTypes |-> << >>, transformationCount |-> 0]

\* The locals of a call before its crypto stage.
InitialLocals(text) ==
    [transformedText |-> text, detectedPiiTypes |-> << >>, transformationCount |-> 0]

\* The try/catch around the decryption in transformPiiData, given how the
\* awaited call settled.
DecryptStage(l, outcome) ==
    IF outcome.ok
    THEN [l EXCEPT !.transformedText = outcome.value,
                   !.detectedPiiTypes = Append(@, "PGP_DECRYPTED"),
                   !.transformationCount = 1]
    ELSE [l EXCEPT !.transformedText =
                       <<"[DECRYPTION_FAILED: ">> \o ErrorText(outcome) \o <<"]">>,
                   !.detectedPiiTypes = Append(@, "DECRYPTION_ERROR"),
                   !.transformationCount = 1]

\* A faulty variant of EncryptStage whose catch does not embed the error's message.
EncryptStageNoMessage(l, outcome) ==
    IF outcome.ok
    THEN [l EXCEPT !.transformedText = outcome.value,
                   !.detectedPiiTypes = Append(@, "PGP_ENCRYPTED"),
                   !.transformationCount = 1]
    ELSE [l EXCEPT !.transformedText = <<"[ENCRYPTION_FAILED: ">> \o MsgUnknown \o <<"]">>,
                   !.detectedPiiTypes = Append(@, "ENCRYPTION_ERROR"),
                   !.transformationCount = 1]

\* The try/catch around the encryption in backwardTransformPiiData.
EncryptStage(l, outcome) ==
    IF outcome.ok
    THEN [l EXCEPT !.transformedText = outcome.value,
                   !.detectedPiiTypes = Append(@, "PGP_ENCRYPTED"),
                   !.transformationCount = 1]
    ELSE [l EXCEPT !.transformedText =
                       <<"[ENCRYPTION_FAILED: ">> \o ErrorText(outcome) \o <<"]">>,
                   !.detectedPiiTypes = Append(@, "ENCRYPTION_ERROR"),
                   !.transformationCount = 1]

\* A faulty variant of DigestArgument that digests the input text.
DigestArgumentInput(text, l) == text

\* The argument of generateSHA256Hash: the transformed text.
DigestArgument(text, l) == l.transformedText

\* A faulty variant of DigestStage that does not count the digest stage.
DigestStageNoCount(text, l, hashedText) ==
    [originalText |-> text,
     transformedText |-> l.transformedText,
     hashedText |-> hashedText,
     detectedPiiTypes |-> Append(l.detectedPiiTypes, "SHA256_HASHED"),
     transformationCount |-> l.transformationCount]

\* What follows the awaited digest: the label, the count, the result.
DigestStage(text, l, hashedText) ==
    [originalText |-> text,
     transformedText |-> l.transformedText,
     hashedText |-> hashedText,
     detectedPiiTypes |-> Append(l.detectedPiiTypes, "SHA256_HASHED"),
     transformationCount |-> l.transformationCount + 1]

\* transformPiiData run on its own, from call to result.
transformPiiData(text, shouldDecrypt, passphrase) ==
    IF IsIdentityInput(text) THEN IdentityResult(text)
    ELSE LET l0 == InitialLocals(text)
             l1 == IF ~shouldDecrypt THEN l0
                   ELSE IF Falsy(passphrase)
                        THEN DecryptStage(l0, Throw(MsgNeedPassDecrypt))
                        ELSE DecryptStage(l0, safe_pgp_sym_decrypt(text, passphrase))
         IN  DigestStage(text, l1, generateSHA256Hash(DigestArgument(text, l1)))

\* backwardTransformPiiData run on its own, env being what the library does.
backwardTransformPiiData(text, passphrase, env) ==
    IF IsIdentityInput(text) THEN IdentityResult(text)
    ELSE LET l0 == InitialLocals(text)
             l1 == IF Falsy(passphrase)
                   THEN EncryptStage(l0, Throw(MsgNeedPassEncrypt))
                   ELSE EncryptStage(l0, safe_pgp_sym_encrypt(text, passphrase, env))
         IN  DigestStage(text, l1, generateSHA256Hash(DigestArgument(text, l1)))

\* ------------------------------------------------------------------ heuristic

\* A faulty variant of containsPii that only looks for the marker.
containsPiiMarkerOnly(text) == StartsWith(text, <<"\\", "x">>)

containsPii(text) == StartsWith(text, <<"\\", "x", "c">>)

analyzePiiData(text) ==
    LET isSpecificHexPgp == StartsWith(text, <<"\\", "x", "c">>)
    IN  [stats |-> [SPECIFIC_HEX_PGP |-> IF isSpecificHexPgp THEN 1 ELSE 0],
         totalMatches |-> IF isSpecificHexPgp THEN 1 ELSE 0,
         hasAnyPii |-> isSpecificHexPgp]

\* ------------------------------------------------------------------ inputs

TextAlphabet == {" ", "a", "\\", "x", "c"}

StringsUpTo(n) == UNION {[1..k -> TextAlphabet] : k \in 0..n}

\* "\xc30101d20161": the text "a" under passphrase "k1", salt 1.
EnvelopeA1 == <<"\\", "x", "c", "3", "0", "1", "0", "1", "d", "2", "0", "1", "6", "1">>
\* "\xc30202d2026361": the text "ca" under passphrase "k2", salt 2.
EnvelopeCA2 == <<"\\", "x", "c", "3", "0", "2", "0", "2", "d", "2", "0", "2", "6", "3", "6", "1">>
\* EnvelopeA1 without its last character.
EnvelopeCut == SubSeq(EnvelopeA1, 1, Len(EnvelopeA1) - 1)
\* EnvelopeA1 with another first byte, 0xc4.
EnvelopeC4 == <<"\\", "x", "c", "4", "0", "1", "0", "1", "d", "2", "0", "1", "6", "1">>
\* EnvelopeA1 without the marker.
EnvelopeBare == Slice(EnvelopeA1, 2)

Envelopes == {EnvelopeA1, EnvelopeCA2, EnvelopeCut, EnvelopeC4, EnvelopeBare}

Texts == StringsUpTo(MaxTextLen) \cup Envelopes

Passphrases == {Undefined, "", "k1", "k2"}

\* The inputs of the calls that run together.
ConcTexts == {<<" ">>, <<"a">>, EnvelopeA1}
ConcPassphrases == {Undefined, "k1", "k2"}

ByteSamples == {0, 1, 9, 10, 15, 16, 17, 127, 128, 160, 171, 195, 202, 204, 240, 255}

ByteSeqs == UNION {[1..k -> ByteSamples] : k \in 0..MaxBytes}

\* ------------------------------------------------------------------ state

VARIABLES
    pc,      \* per call: where the call is suspended
    args,    \* per call: its arguments and what the library does for it
    frame,   \* the locals of the calls in flight
    result,  \* per call: the TransformationResult it resolved to
    trace,   \* per call: the codec, cipher and digest steps it invoked, in order
    rt,      \* per call: the plain text a round trip started from
    codec,   \* a hex codec run: bytes, their encoding, its decoding
    probe,   \* a format heuristic run
    inputText,             \* Home: the textarea's state
    passphraseState,       \* Home: the passphrase field's state
    isBackwardMode,        \* Home: the mode toggle's state
    isProcessing,          \* Home: a transform is running
    transformationResult,  \* Home: the result shown, or null
    handler,  \* per run of handleTransformPiiData: its stage and what it closed over
    cleared   \* clearAll has run and the transform button was not clicked since

PageVars == <<inputText, passphraseState, isBackwardMode, isProcessing,
              transformationResult, handler, cleared>>

vars == <<pc, args, frame, result, trace, rt, codec, probe, inputText, passphraseState,
          isBackwardMode, isProcessing, transformationResult, handler, cleared>>

Calls == 1..NumCalls

\* A faulty variant of Local in which the locals are module-level variables, one set
\* for all calls.
LocalShared(c) == 1

\* Where the locals of call c live: every invocation has its own
\* transformedText, detectedPiiTypes and transformationCount.
Local(c) == c

DefaultEnv == [fails |-> FALSE, salt |-> 1]

NoArgs == [op |-> "none", text |-> << >>, shouldDecrypt |-> FALSE,
           passphrase |-> Undefined, env |-> DefaultEnv]

NoFrame == [transformedText |-> << >>, detectedPiiTypes |-> << >>,
            transformationCount |-> 0, encrypted |-> << >>, settled |-> Ok(<< >>),
            hashing |-> << >>]

NoResult == [pending |-> TRUE]

NoRoundTrip == [active |-> FALSE, plainText |-> << >>, passphrase |-> Undefined]

CodecOff == [stage |-> "off", bytes |-> << >>, hex |-> << >>, decoded |-> << >>]

ProbeOff == [stage |-> "off", text |-> << >>, contains |-> FALSE,
             analysis |-> analyzePiiData(<< >>)]

\* useState<TransformationResult | null>(null)
Null == [isNull |-> TRUE]

\* A run of handleTransformPiiData that has not started, or has finished.
NoHandler == [stage |-> "free", inputText |-> << >>, passphrase |-> "",
              isBackwardMode |-> FALSE]

\* The state of Home when it mounts.
PageInit ==
    /\ inputText = << >>
    /\ passphraseState = ""
    /\ isBackwardMode = FALSE
    /\ isProcessing = FALSE
    /\ transformationResult = Null
    /\ handler = [h \in Calls |-> NoHandler]
    /\ cleared = FALSE

PipelineInit ==
    /\ pc = [c \in Calls |-> "idle"]
    /\ args = [c \in Calls |-> NoArgs]
    /\ frame = [c \in Calls |-> NoFrame]
    /\ result = [c \in Calls |-> NoResult]
    /\ trace = [c \in Calls |-> << >>]
    /\ rt = [c \in Calls |-> NoRoundTrip]

Init ==
    /\ PipelineInit
    /\ PageInit
    /\ codec = CodecOff
    /\ probe = ProbeOff

PipelineVars == <<pc, args, frame, result, trace, rt>>

\* ------------------------------------------------------------------ transformPiiData

\* The frame of call c with its locals replaced.
WithLocals(f, l) ==
    [f EXCEPT !.transformedText = l.transformedText,
              !.detectedPiiTypes = l.detectedPiiTypes,
              !.transformationCount = l.transformationCount]

LocalsOf(f) ==
    [transformedText |-> f.transformedText,
     detectedPiiTypes |-> f.detectedPiiTypes,
     transformationCount |-> f.transformationCount]

\* The call of generateSHA256Hash(transformedText), up to its await: the
\* argument is the text at the time of the call.
BeginDigest(f, text) == [f EXCEPT !.hashing = DigestArgument(text, LocalsOf(f))]

\* transformPiiData(text, shouldDecrypt, passphrase) up to its first await, or
\* to its return for a blank text.
EnterTransform(c, text, shouldDecrypt, passphrase) ==
    LET a == [op |-> "transformPiiData", text |-> text, shouldDecrypt |-> shouldDecrypt,
              passphrase |-> passphrase, env |-> DefaultEnv]
        f0 == WithLocals(NoFrame, InitialLocals(text))
        guard == SafeDecryptGuard(text, passphrase)
    IN  /\ args' = [args EXCEPT ![c] = a]
        /\ IF IsIdentityInput(text)
           THEN /\ pc' = [pc EXCEPT ![c] = "done"]
                /\ result' = [result EXCEPT ![c] = IdentityResult(text)]
                /\ trace' = [trace EXCEPT ![c] = << >>]
                /\ UNCHANGED frame
           ELSE /\ result' = [result EXCEPT ![c] = NoResult]
                /\ IF ~shouldDecrypt
                   THEN /\ frame' = [frame EXCEPT ![Local(c)] = BeginDigest(f0, text)]
                        /\ pc' = [pc EXCEPT ![c] = "digest"]
                        /\ trace' = [trace EXCEPT ![c] = <<"digest">>]
                   ELSE IF Falsy(passphrase)
                   THEN /\ frame' = [frame EXCEPT ![Local(c)] =
                               BeginDigest(WithLocals(f0, DecryptStage(LocalsOf(f0),
                                   Throw(MsgNeedPassDecrypt))), text)]
                        /\ pc' = [pc EXCEPT ![c] = "digest"]
                        /\ trace' = [trace EXCEPT ![c] = <<"digest">>]
                   ELSE IF ~guard.ok
                   THEN /\ frame' = [frame EXCEPT ![Local(c)] =
                               [f0 EXCEPT !.settled = WrapDecryptError(guard)]]
                        /\ pc' = [pc EXCEPT ![c] = "awaitDecrypt"]
                        /\ trace' = [trace EXCEPT ![c] = << >>]
                   ELSE /\ frame' = [frame EXCEPT ![Local(c)] =
                               [f0 EXCEPT !.encrypted = hexToUint8Array(text)]]
                        /\ pc' = [pc EXCEPT ![c] = "readMessage"]
                        /\ trace' = [trace EXCEPT ![c] = <<"hexToUint8Array", "readMessage">>]

\* A caller invokes transformPiiData.
TransformCall(c, T, P) ==
    /\ pc[c] = "idle"
    /\ \E text \in T, passphrase \in P, shouldDecrypt \in BOOLEAN :
           EnterTransform(c, text, shouldDecrypt, passphrase)
    /\ rt' = [rt EXCEPT ![c] = NoRoundTrip]
    /\ UNCHANGED <<codec, probe, PageVars>>

\* decryptPGP: openpgp.readMessage settles.
ReadMessageSettles(c) ==
    /\ pc[c] = "readMessage"
    /\ LET m == OpenpgpReadMessage(frame[Local(c)].encrypted)
       IN  IF m.ok
           THEN /\ pc' = [pc EXCEPT ![c] = "decrypt"]
                /\ trace' = [trace EXCEPT ![c] = Append(@, "decrypt")]
                /\ UNCHANGED frame
           ELSE /\ pc' = [pc EXCEPT ![c] = "awaitDecrypt"]
                /\ frame' = [frame EXCEPT ![Local(c)].settled = WrapDecryptError(m)]
                /\ UNCHANGED trace
    /\ UNCHANGED <<args, result, rt, codec, probe, PageVars>>

\* decryptPGP: openpgp.decrypt settles, and with it safe_pgp_sym_decrypt.
DecryptSettles(c) ==
    /\ pc[c] = "decrypt"
    /\ LET d == OpenpgpDecrypt(frame[Local(c)].encrypted, args[c].passphrase)
       IN  frame' = [frame EXCEPT ![Local(c)].settled =
                        IF d.ok THEN d ELSE WrapDecryptError(d)]
    /\ pc' = [pc EXCEPT ![c] = "awaitDecrypt"]
    /\ UNCHANGED <<args, result, trace, rt, codec, probe, PageVars>>

\* transformPiiData resumes after `await safe_pgp_sym_decrypt(...)`, runs the
\* rest of its try or its catch and calls generateSHA256Hash.
ResumeAfterDecrypt(c) ==
    /\ pc[c] = "awaitDecrypt"
    /\ LET f == frame[Local(c)]
       IN  frame' = [frame EXCEPT ![Local(c)] =
                        BeginDigest(WithLocals(f, DecryptStage(LocalsOf(f), f.settled)),
                                    args[c].text)]
    /\ pc' = [pc EXCEPT ![c] = "digest"]
    /\ trace' = [trace EXCEPT ![c] = Append(@, "digest")]
    /\ UNCHANGED <<args, result, rt, codec, probe, PageVars>>

\* ------------------------------------------------------------------ backwardTransformPiiData

\* backwardTransformPiiData(text, passphrase) up to its first await, or to its
\* return for a blank text.
EnterBackward(c, text, passphrase, env) ==
    LET a == [op |-> "backwardTransformPiiData", text |-> text, shouldDecrypt |-> FALSE,
              passphrase |-> passphrase, env |-> env]
        f0 == WithLocals(NoFrame, InitialLocals(text))
        guard == SafeEncryptGuard(passphrase)
    IN  /\ args' = [args EXCEPT ![c] = a]
        /\ IF IsIdentityInput(text)
           THEN /\ pc' = [pc EXCEPT ![c] = "done"]
                /\ result' = [result EXCEPT ![c] = IdentityResult(text)]
                /\ trace' = [trace EXCEPT ![c] = << >>]
                /\ UNCHANGED frame
           ELSE /\ result' = [result EXCEPT ![c] = NoResult]
                /\ IF Falsy(passphrase)
                   THEN /\ frame' = [frame EXCEPT ![Local(c)] =
                               BeginDigest(WithLocals(f0, EncryptStage(LocalsOf(f0),
                                   Throw(MsgNeedPassEncrypt))), text)]
                        /\ pc' = [pc EXCEPT ![c] = "digest"]
                        /\ trace' = [trace EXCEPT ![c] = <<"digest">>]
                   ELSE IF ~guard.ok
                   THEN /\ frame' = [frame EXCEPT ![Local(c)] =
                               [f0 EXCEPT !.settled = WrapEncryptError(guard)]]
                        /\ pc' = [pc EXCEPT ![c] = "awaitEncrypt"]
                        /\ trace' = [trace EXCEPT ![c] = << >>]
                   ELSE /\ frame' = [frame EXCEPT ![Local(c)] = f0]
                        /\ pc' = [pc EXCEPT ![c] = "encrypt"]
                        /\ trace' = [trace EXCEPT ![c] = <<"encrypt">>]

\* A caller invokes backwardTransformPiiData.
BackwardCall(c, T, P, E) ==
    /\ pc[c] = "idle"
    /\ \E text \in T, passphrase \in P, env \in E :
           /\ (IsIdentityInput(text) \/ Falsy(passphrase)) => env = DefaultEnv
           /\ EnterBackward(c, text, passphrase, env)
    /\ rt' = [rt EXCEPT ![c] = NoRoundTrip]
    /\ UNCHANGED <<codec, probe, PageVars>>

\* safe_pgp_sym_encrypt: openpgp.createMessage and openpgp.encrypt settle, the
\* bytes are converted to hex, and the call settles.
EncryptSettles(c) ==
    /\ pc[c] = "encrypt"
    /\ LET e == EncryptAndEncode(args[c].text, args[c].passphrase, args[c].env)
       IN  frame' = [frame EXCEPT ![Local(c)].settled =
                        IF e.ok THEN e ELSE WrapEncryptError(e)]
    /\ pc' = [pc EXCEPT ![c] = "awaitEncrypt"]
    /\ UNCHANGED <<args, result, trace, rt, codec, probe, PageVars>>

\* backwardTransformPiiData resumes after `await safe_pgp_sym_encrypt(...)`.
ResumeAfterEncrypt(c) ==
    /\ pc[c] = "awaitEncrypt"
    /\ LET f == frame[Local(c)]
       IN  frame' = [frame EXCEPT ![Local(c)] =
                        BeginDigest(WithLocals(f, EncryptStage(LocalsOf(f), f.settled)),
                                    args[c].text)]
    /\ pc' = [pc EXCEPT ![c] = "digest"]
    /\ trace' = [trace EXCEPT ![c] = Append(@, "digest")]
    /\ UNCHANGED <<args, result, rt, codec, probe, PageVars>>

\* ------------------------------------------------------------------ both

\* crypto.subtle.digest settles; the call pushes the digest label, counts the
\* stage and returns its result.
DigestSettles(c) ==
    /\ pc[c] = "digest"
    /\ LET f == frame[Local(c)]
       IN  result' = [result EXCEPT ![c] =
                         DigestStage(args[c].text, LocalsOf(f), generateSHA256Hash(f.hashing))]
    /\ pc' = [pc EXCEPT ![c] = "done"]
    /\ UNCHANGED <<args, frame, trace, rt, codec, probe, PageVars>>

\* The caller has taken the result; the call's slot is free again.
Return(c) ==
    /\ pc[c] = "done"
    /\ pc' = [pc EXCEPT ![c] = "idle"]
    /\ args' = [args EXCEPT ![c] = NoArgs]
    /\ frame' = [frame EXCEPT ![Local(c)] = NoFrame]
    /\ result' = [result EXCEPT ![c] = NoResult]
    /\ trace' = [trace EXCEPT ![c] = << >>]
    /\ rt' = [rt EXCEPT ![c] = NoRoundTrip]
    /\ UNCHANGED <<codec, probe, PageVars>>

\* The caller feeds the envelope an encryption returned back into
\* transformPiiData, in decrypt mode, under the same passphrase.
RoundTrip(c) ==
    /\ pc[c] = "done"
    /\ args[c].op = "backwardTransformPiiData"
    /\ ~IsBlank(args[c].text)
    /\ ~Falsy(args[c].passphrase)
    /\ ~args[c].env.fails
    /\ rt' = [rt EXCEPT ![c] = [active |-> TRUE, plainText |-> args[c].text,
                                passphrase |-> args[c].passphrase]]
    /\ EnterTransform(c, result[c].transformedText, TRUE, args[c].passphrase)
    /\ UNCHANGED <<codec, probe, PageVars>>

Step(c, T, P, E) ==
    \/ TransformCall(c, T, P)
    \/ BackwardCall(c, T, P, E)
    \/ ReadMessageSettles(c)
    \/ DecryptSettles(c)
    \/ ResumeAfterDecrypt(c)
    \/ EncryptSettles(c)
    \/ ResumeAfterEncrypt(c)
    \/ DigestSettles(c)
    \/ Return(c)

\* One call at a time, over all the texts.
Next == Step(1, Texts, Passphrases, EncryptEnvs) \/ RoundTrip(1)

Spec == Init /\ [][Next]_vars

\* The calls in flight together.
NextConc == \E c \in Calls : Step(c, ConcTexts, ConcPassphrases, ConcEncryptEnvs)

SpecConc == Init /\ [][NextConc]_vars

\* ------------------------------------------------------------------ codec and heuristic runs

\* uint8ArrayToHex(bytes)
Encode ==
    /\ codec.stage = "input"
    /\ codec' = [codec EXCEPT !.stage = "encoded", !.hex = uint8ArrayToHex(codec.bytes)]
    /\ UNCHANGED <<PipelineVars, probe, PageVars>>

\* hexToUint8Array(hex)
Decode ==
    /\ codec.stage = "encoded"
    /\ codec' = [codec EXCEPT !.stage = "decoded", !.decoded = hexToUint8Array(codec.hex)]
    /\ UNCHANGED <<PipelineVars, probe, PageVars>>

InitCodec ==
    /\ PipelineInit
    /\ PageInit
    /\ probe = ProbeOff
    /\ codec \in {[stage |-> "input", bytes |-> b, hex |-> << >>, decoded |-> << >>] :
                     b \in ByteSeqs}

NextCodec == Encode \/ Decode

SpecCodec == InitCodec /\ [][NextCodec]_vars

\* containsPii(text)
ContainsPiiCall ==
    /\ probe.stage = "input"
    /\ probe' = [probe EXCEPT !.stage = "checked", !.contains = containsPii(probe.text)]
    /\ UNCHANGED <<PipelineVars, codec, PageVars>>

\* analyzePiiData(text)
AnalyzePiiDataCall ==
    /\ probe.stage = "checked"
    /\ probe' = [probe EXCEPT !.stage = "analyzed", !.analysis = analyzePiiData(probe.text)]
    /\ UNCHANGED <<PipelineVars, codec, PageVars>>

InitHeuristic ==
    /\ PipelineInit
    /\ PageInit
    /\ codec = CodecOff
    /\ probe \in {[stage |-> "input", text |-> t, contains |-> FALSE,
                   analysis |-> analyzePiiData(<< >>)] : t \in Texts}

NextHeuristic == ContainsPiiCall \/ AnalyzePiiDataCall

SpecHeuristic == InitHeuristic /\ [][NextHeuristic]_vars

\* ------------------------------------------------------------------ the page

\* What the user may type into the textarea and into the passphrase field.
PageTexts == {<< >>, <<" ">>, <<"a">>, EnvelopeA1}
PagePassphrases == {"", " ", "k1", "k2"}

\* passphrase.trim(), for the passphrases of this model.
PassphraseTrim(p) == IF p = " " THEN "" ELSE p

\* A faulty variant of TransformDisabled that leaves out isProcessing.
TransformDisabledNotBusy(t, p, busy) == IsBlank(t) \/ PassphraseTrim(p) = ""

\* disabled={!inputText.trim() || !passphrase.trim() || isProcessing}
TransformDisabled(t, p, busy) == IsBlank(t) \/ PassphraseTrim(p) = "" \/ busy

\* The placeholder of the output pane: !result || !result.transformedText
ShowsPlaceholder(r) == r = Null \/ r.transformedText = << >>

\* onChange of the textarea
EditInput ==
    /\ \E t \in PageTexts : t # inputText /\ inputText' = t
    /\ UNCHANGED <<PipelineVars, codec, probe, passphraseState, isBackwardMode,
                   isProcessing, transformationResult, handler, cleared>>

\* onChange of the passphrase field
EditPassphrase ==
    /\ \E p \in PagePassphrases : p # passphraseState /\ passphraseState' = p
    /\ UNCHANGED <<PipelineVars, codec, probe, inputText, isBackwardMode,
                   isProcessing, transformationResult, handler, cleared>>

\* onChange of the mode radio buttons
SetMode ==
    /\ isBackwardMode' = ~isBackwardMode
    /\ UNCHANGED <<PipelineVars, codec, probe, inputText, passphraseState,
                   isProcessing, transformationResult, handler, cleared>>

\* A click on the transform button: handleTransformPiiData of the current
\* render runs to its first await.  The state it reads later is the state of
\* that render, which it closed over.
ClickTransform ==
    /\ ~TransformDisabled(inputText, passphraseState, isProcessing)
    /\ ~IsBlank(inputText)
    /\ \E h \in Calls :
           /\ handler[h].stage = "free"
           /\ handler' = [handler EXCEPT ![h] =
                             [stage |-> "delay", inputText |-> inputText,
                              passphrase |-> passphraseState,
                              isBackwardMode |-> isBackwardMode]]
    /\ isProcessing' = TRUE
    /\ cleared' = FALSE
    /\ UNCHANGED <<PipelineVars, codec, probe, inputText, passphraseState,
                   isBackwardMode, transformationResult>>

\* The one-second delay is over: the handler calls the pipeline.
DelayElapses(h) ==
    /\ handler[h].stage = "delay"
    /\ pc[h] = "idle"
    /\ IF handler[h].isBackwardMode
       THEN \E env \in ConcEncryptEnvs :
                EnterBackward(h, handler[h].inputText, handler[h].passphrase, env)
       ELSE EnterTransform(h, handler[h].inputText, TRUE, handler[h].passphrase)
    /\ handler' = [handler EXCEPT ![h].stage = "pipeline"]
    /\ UNCHANGED <<rt, codec, probe, inputText, passphraseState, isBackwardMode,
                   isProcessing, transformationResult, cleared>>

\* The pipeline call has resolved: the handler stores the result and then
\* clears isProcessing.
HandlerResumes(h) ==
    /\ handler[h].stage = "pipeline"
    /\ pc[h] = "done"
    /\ transformationResult' = result[h]
    /\ isProcessing' = FALSE
    /\ handler' = [handler EXCEPT ![h] = NoHandler]
    /\ pc' = [pc EXCEPT ![h] = "idle"]
    /\ args' = [args EXCEPT ![h] = NoArgs]
    /\ frame' = [frame EXCEPT ![Local(h)] = NoFrame]
    /\ result' = [result EXCEPT ![h] = NoResult]
    /\ trace' = [trace EXCEPT ![h] = << >>]
    /\ UNCHANGED <<rt, codec, probe, inputText, passphraseState, isBackwardMode, cleared>>

\* A click on Clear All.
clearAll ==
    /\ inputText' = << >>
    /\ transformationResult' = Null
    /\ cleared' = TRUE
    /\ UNCHANGED <<PipelineVars, codec, probe, passphraseState, isBackwardMode,
                   isProcessing, handler>>

\* An awaited step of the pipeline call of run h settles.
PipelineStep(h) ==
    /\ handler[h].stage = "pipeline"
    /\ \/ ReadMessageSettles(h)
       \/ DecryptSettles(h)
       \/ ResumeAfterDecrypt(h)
       \/ EncryptSettles(h)
       \/ ResumeAfterEncrypt(h)
       \/ DigestSettles(h)

NextPage ==
    \/ EditInput
    \/ EditPassphrase
    \/ SetMode
    \/ ClickTransform
    \/ clearAll
    \/ \E h \in Calls : DelayElapses(h) \/ PipelineStep(h) \/ HandlerResumes(h)

SpecPage == Init /\ [][NextPage]_vars

\* ------------------------------------------------------------------ claims

\* Empty or made of white space only.
AllWhiteSpace(s) == \A i \in 1..Len(s) : s[i] \in WhiteSpace

Finished(c) == pc[c] = "done"

\* Call c ran a crypto stage: decryption was asked for, or it is an encryption.
CryptoMode(c) ==
    \/ args[c].op = "backwardTransformPiiData"
    \/ args[c].op = "transformPiiData" /\ args[c].shouldDecrypt

CryptoLabels(c) ==
    IF args[c].op = "backwardTransformPiiData"
    THEN {"PGP_ENCRYPTED", "ENCRYPTION_ERROR"}
    ELSE {"PGP_DECRYPTED", "DECRYPTION_ERROR"}

\* C1, as claimed: for every text, passphrase and shouldDecrypt, a finished
\* call has transformationCount 0 iff the text is blank, and otherwise count 2
\* and exactly two labels, the crypto outcome and then SHA256_HASHED.
C1_CountAlwaysTwo ==
    \A c \in Calls : Finished(c) =>
        IF AllWhiteSpace(args[c].text)
        THEN result[c].transformationCount = 0
        ELSE /\ result[c].transformationCount = 2
             /\ Len(result[c].detectedPiiTypes) = 2
             /\ result[c].detectedPiiTypes[1] \in CryptoLabels(c)
             /\ result[c].detectedPiiTypes[2] = "SHA256_HASHED"

\* C1, amended: the count is 0 iff the text is blank; a non-blank text gives
\* count 2 and the two labels (crypto outcome, SHA256_HASHED) when a crypto
\* stage is asked for (shouldDecrypt = true, or the backward transform), and
\* count 1 with the single label SHA256_HASHED when shouldDecrypt = false.
C1_CountByMode ==
    \A c \in Calls : Finished(c) =>
        /\ result[c].transformationCount = 0 <=> AllWhiteSpace(args[c].text)
        /\ ~AllWhiteSpace(args[c].text) /\ CryptoMode(c) =>
              /\ result[c].transformationCount = 2
              /\ Len(result[c].detectedPiiTypes) = 2
              /\ result[c].detectedPiiTypes[1] \in CryptoLabels(c)
              /\ result[c].detectedPiiTypes[2] = "SHA256_HASHED"
        /\ ~AllWhiteSpace(args[c].text) /\ ~CryptoMode(c) =>
              /\ result[c].transformationCount = 1
              /\ result[c].detectedPiiTypes = <<"SHA256_HASHED">>

C1_Witness ==
    /\ Finished(1)
    /\ args[1].op = "transformPiiData"
    /\ args[1].shouldDecrypt
    /\ args[1].text = <<"a", " ">>
    /\ args[1].passphrase = "k1"
    /\ result[1].transformationCount = 2

\* C2: a blank text gives the identity result for any passphrase: both texts
\* are the input, no label, count 0, no hashedText, and neither the codec, the
\* cipher nor the digest was invoked.
C2_BlankIsIdentity ==
    \A c \in Calls : Finished(c) /\ AllWhiteSpace(args[c].text) =>
        /\ result[c] = [originalText |-> args[c].text,
                        transformedText |-> args[c].text,
                        detectedPiiTypes |-> << >>,
                        transformationCount |-> 0]
        /\ "hashedText" \notin DOMAIN result[c]
        /\ trace[c] = << >>

C2_Witness ==
    /\ Finished(1)
    /\ args[1].text = <<" ", " ">>
    /\ args[1].passphrase = "k1"
    /\ args[1].op = "backwardTransformPiiData"
    /\ result[1].transformedText = <<" ", " ">>

ResultFields ==
    {"originalText", "transformedText", "hashedText", "detectedPiiTypes",
     "transformationCount"}

EndsWith(s, suffix) ==
    /\ Len(s) >= Len(suffix)
    /\ SubSeq(s, Len(s) - Len(suffix) + 1, Len(s)) = suffix

DecryptMode(c) == args[c].op = "transformPiiData" /\ args[c].shouldDecrypt
EncryptMode(c) == args[c].op = "backwardTransformPiiData"

\* The crypto stage of call c fails: no passphrase, a prefix the decrypt path
\* does not support, or a failure raised by the library.
CryptoFails(c) ==
    \/ Falsy(args[c].passphrase)
    \/ /\ DecryptMode(c)
       /\ \/ ~StartsWith(args[c].text, <<"\\", "x", "c">>)
          \/ ~decryptPGP(args[c].text, args[c].passphrase).ok
    \/ EncryptMode(c) /\ args[c].env.fails

\* The message of the error that made it fail.
FailureMessage(c) ==
    IF Falsy(args[c].passphrase)
    THEN IF DecryptMode(c) THEN MsgNeedPassDecrypt ELSE MsgNeedPassEncrypt
    ELSE IF EncryptMode(c) THEN MsgLibEncrypt
    ELSE IF ~StartsWith(args[c].text, <<"\\", "x", "c">>) THEN MsgOnlyHex
    ELSE decryptPGP(args[c].text, args[c].passphrase).message

MarkerHead(c) ==
    IF DecryptMode(c) THEN "[DECRYPTION_FAILED: " ELSE "[ENCRYPTION_FAILED: "

ErrorLabel(c) == IF DecryptMode(c) THEN "DECRYPTION_ERROR" ELSE "ENCRYPTION_ERROR"

\* C3: on a non-blank text, a missing or empty passphrase, an unsupported
\* prefix or a failure of the library's encrypt or decrypt ends in a
\* well-formed result: originalText is the input, transformedText is the
\* mode's failure marker around the error's message, the first label is the
\* mode's error label and not a success label.
C3_FailureIsAResult ==
    \A c \in Calls :
        Finished(c) /\ ~AllWhiteSpace(args[c].text) /\ CryptoMode(c) /\ CryptoFails(c) =>
            /\ DOMAIN result[c] = ResultFields
            /\ result[c].originalText = args[c].text
            /\ Len(result[c].transformedText) >= 3
            /\ Head(result[c].transformedText) = MarkerHead(c)
            /\ EndsWith(result[c].transformedText, FailureMessage(c) \o <<"]">>)
            /\ result[c].detectedPiiTypes[1] = ErrorLabel(c)
            /\ result[c].detectedPiiTypes[1] \notin {"PGP_DECRYPTED", "PGP_ENCRYPTED"}

C3_Witness ==
    /\ Finished(1)
    /\ EncryptMode(1)
    /\ args[1].text = <<"a">>
    /\ args[1].passphrase = "k1"
    /\ args[1].env.fails
    /\ result[1].transformedText =
           <<"[ENCRYPTION_FAILED: ", "PGP encryption failed: ", "Error encrypting message", "]">>

\* C4, as claimed: when the envelope that backwardTransformPiiData(p, k)
\* returned for a non-blank p and a non-empty k is given to transformPiiData
\* in decrypt mode under k, the result has transformedText = p and the first
\* label PGP_DECRYPTED; the envelope passes the decrypt path's prefix gate.
C4_RoundTrip ==
    \A c \in Calls :
        rt[c].active =>
            /\ StartsWith(args[c].text, <<"\\", "x", "c">>)
            /\ Finished(c) =>
                  /\ result[c].transformedText = rt[c].plainText
                  /\ result[c].detectedPiiTypes[1] = "PGP_DECRYPTED"

\* C5, as claimed: a text that does not start with "\xc3", given to the
\* decrypt path under any passphrase, never reaches the hex decoder or the
\* library, and its result is the unsupported-format failure.
C5_OnlyC3Accepted ==
    \A c \in Calls :
        /\ DecryptMode(c)
        /\ ~AllWhiteSpace(args[c].text)
        /\ ~StartsWith(args[c].text, <<"\\", "x", "c", "3">>)
        => /\ pc[c] \notin {"readMessage", "decrypt"}
           /\ \A i \in 1..Len(trace[c]) :
                  trace[c][i] \notin {"hexToUint8Array", "readMessage", "decrypt"}
           /\ Finished(c) =>
                  /\ result[c].transformedText =
                         <<"[DECRYPTION_FAILED: ">> \o MsgDecryptPrefix \o MsgOnlyHex \o <<"]">>
                  /\ result[c].detectedPiiTypes[1] = "DECRYPTION_ERROR"

\* The envelopes of the inputs that are valid messages, with the text and the
\* passphrase each was made from.
ValidEnvelopes ==
    {[text |-> EnvelopeA1, plainText |-> <<"a">>, passphrase |-> "k1"],
     [text |-> EnvelopeCA2, plainText |-> <<"c", "a">>, passphrase |-> "k2"]}

FixedMessages ==
    {"Passphrase is required for decryption", "PGP decryption failed: ",
     "Only hex format starting with \\xc is supported",
     "Error during parsing. This message / key probably does not conform to a valid OpenPGP format.",
     "Error decrypting message: No encrypted data found",
     "Error decrypting message: Session key decryption failed."}

\* C6: decrypting a valid envelope under another passphrase than its own
\* returns no plain text: transformedText is the DECRYPTION_FAILED marker
\* around fixed message texts only, and the labels hold DECRYPTION_ERROR and
\* not PGP_DECRYPTED.
C6_WrongPassphrase ==
    \A c \in Calls : \A e \in ValidEnvelopes :
        /\ Finished(c)
        /\ DecryptMode(c)
        /\ args[c].text = e.text
        /\ args[c].passphrase # e.passphrase
        => LET t == result[c].transformedText
               labels == result[c].detectedPiiTypes
           IN  /\ Len(t) >= 3
               /\ t[1] = "[DECRYPTION_FAILED: "
               /\ t[Len(t)] = "]"
               /\ \A i \in 2..(Len(t) - 1) : t[i] \in FixedMessages
               /\ t # e.plainText
               /\ \E i \in 1..Len(labels) : labels[i] = "DECRYPTION_ERROR"
               /\ \A i \in 1..Len(labels) : labels[i] # "PGP_DECRYPTED"

C6_Witness ==
    /\ Finished(1)
    /\ DecryptMode(1)
    /\ args[1].text = EnvelopeA1
    /\ args[1].passphrase = "k2"
    /\ trace[1] = <<"hexToUint8Array", "readMessage", "decrypt", "digest">>
    /\ result[1].detectedPiiTypes = <<"DECRYPTION_ERROR", "SHA256_HASHED">>

\* A valid envelope under its own passphrase decrypts to its plain text.
EnvelopeDecrypts ==
    \A c \in Calls : \A e \in ValidEnvelopes :
        /\ Finished(c)
        /\ DecryptMode(c)
        /\ args[c].text = e.text
        /\ args[c].passphrase = e.passphrase
        => /\ result[c].transformedText = e.plainText
           /\ result[c].detectedPiiTypes = <<"PGP_DECRYPTED", "SHA256_HASHED">>

\* C7: the result of a call on a non-blank text has a hashedText, the digest
\* of that result's transformedText; the digest is the last step of the call,
\* started when the crypto stage has settled, so after a failed crypto stage
\* it is the digest of the failure marker and not of the input.
C7_HashOfTransformed ==
    \A c \in Calls :
        /\ pc[c] = "digest" =>
              /\ trace[c][Len(trace[c])] = "digest"
              /\ frame[Local(c)].hashing = frame[Local(c)].transformedText
        /\ Finished(c) /\ ~AllWhiteSpace(args[c].text) =>
              /\ "hashedText" \in DOMAIN result[c]
              /\ result[c].hashedText = Sha256Hex(ToUpperCase(result[c].transformedText))
              /\ trace[c] # << >>
              /\ \A i \in 1..Len(trace[c]) : trace[c][i] = "digest" <=> i = Len(trace[c])
              /\ CryptoMode(c) /\ CryptoFails(c) =>
                    /\ Head(result[c].transformedText) = MarkerHead(c)
                    /\ result[c].hashedText # Sha256Hex(ToUpperCase(args[c].text))

C7_Witness ==
    /\ Finished(1)
    /\ DecryptMode(1)
    /\ args[1].text = <<"a">>
    /\ args[1].passphrase = "k1"
    /\ result[1].transformedText =
           <<"[DECRYPTION_FAILED: ", "PGP decryption failed: ",
             "Only hex format starting with \\xc is supported", "]">>
    /\ result[1].hashedText =
           <<"sha256(", "[DECRYPTION_FAILED: ", "PGP DECRYPTION FAILED: ",
             "ONLY HEX FORMAT STARTING WITH \\XC IS SUPPORTED", "]", ")">>

\* C8: however the awaited steps of the calls interleave, the result of each
\* finished call is the result of running that call alone on its own text and
\* passphrase (and, for an encryption, on what the library did for it).
C8_CallsAreIndependent ==
    \A c \in Calls :
        Finished(c) =>
            result[c] =
                IF args[c].op = "transformPiiData"
                THEN transformPiiData(args[c].text, args[c].shouldDecrypt, args[c].passphrase)
                ELSE backwardTransformPiiData(args[c].text, args[c].passphrase, args[c].env)

C8_Witness ==
    /\ Finished(1)
    /\ DecryptMode(1)
    /\ args[1].text = EnvelopeA1
    /\ args[1].passphrase = "k1"
    /\ result[1].transformedText = <<"a">>
    /\ pc[2] = "awaitEncrypt"
    /\ args[2].text = <<"a">>
    /\ args[2].passphrase = "k2"

\* C9: decoding the encoding of a byte sequence gives the byte sequence, and
\* the encoding is the marker "\x" followed by two lowercase hex digits for
\* every byte.
C9_HexRoundTrip ==
    /\ codec.stage \in {"encoded", "decoded"} =>
          /\ Len(codec.hex) = 2 + 2 * Len(codec.bytes)
          /\ codec.hex[1] = "\\"
          /\ codec.hex[2] = "x"
          /\ \A i \in 3..Len(codec.hex) :
                 codec.hex[i] \in {"0", "1", "2", "3", "4", "5", "6", "7", "8", "9",
                                   "a", "b", "c", "d", "e", "f"}
    /\ codec.stage = "decoded" => codec.decoded = codec.bytes

C9_Witness ==
    /\ codec.stage = "decoded"
    /\ codec.bytes = <<10, 195>>
    /\ codec.hex = <<"\\", "x", "0", "a", "c", "3">>
    /\ codec.decoded = <<10, 195>>

\* C10: containsPii(s) is true iff s starts with "\x" and then "c", whatever
\* follows; hasAnyPii and totalMatches (1 or 0) of analyzePiiData(s) agree
\* with it.
C10_PrefixOnly ==
    /\ probe.stage \in {"checked", "analyzed"} =>
          (probe.contains <=>
              /\ Len(probe.text) >= 3
              /\ probe.text[1] = "\\"
              /\ probe.text[2] = "x"
              /\ probe.text[3] = "c")
    /\ probe.stage = "analyzed" =>
          /\ probe.analysis.hasAnyPii = probe.contains
          /\ probe.analysis.totalMatches = IF probe.contains THEN 1 ELSE 0

C10_Witness ==
    /\ probe.stage = "analyzed"
    /\ probe.text = <<"\\", "x", "c", "x">>
    /\ probe.contains
    /\ probe.analysis.totalMatches = 1


\* The runs of handleTransformPiiData that have started and not yet stored
\* their result.
InFlight == {h \in Calls : handler[h].stage # "free"}

\* C11: at most one transform is in flight at any time; while one is in
\* flight isProcessing is true; and the pipeline is only ever invoked with the
\* non-blank input text and the non-blank passphrase the handler closed over,
\* whatever clicks and edits happen meanwhile.
C11_SingleFlight ==
    /\ Cardinality(InFlight) <= 1
    /\ \A h \in Calls :
           /\ handler[h].stage # "free" =>
                  /\ isProcessing
                  /\ ~IsBlank(handler[h].inputText)
                  /\ PassphraseTrim(handler[h].passphrase) # ""
           /\ pc[h] # "idle" =>
                  /\ handler[h].stage = "pipeline"
                  /\ args[h].text = handler[h].inputText
                  /\ args[h].passphrase = handler[h].passphrase
                  /\ ~IsBlank(args[h].text)
                  /\ args[h].passphrase \notin {Undefined, "", " "}

\* A transform is inside its pipeline call while the user has meanwhile
\* blanked the input and the passphrase and clicked nothing else.
C11_Witness ==
    \E h \in Calls :
        /\ handler[h].stage = "pipeline"
        /\ pc[h] \notin {"idle", "done"}
        /\ isProcessing
        /\ IsBlank(inputText)
        /\ PassphraseTrim(passphraseState) = ""

\* C12: once clearAll has run, transformationResult stays null and the output
\* pane shows the placeholder until the next click on the transform button; a
\* transform started before the clear stores nothing after it.
C12_ClearedStaysNull ==
    cleared => transformationResult = Null /\ ShowsPlaceholder(transformationResult)

\* A transform that was awaiting when clearAll ran has stored its result.
C12_StaleResultStored ==
    /\ cleared
    /\ transformationResult # Null
    /\ ~ShowsPlaceholder(transformationResult)

====
